---- MODULE Spec2Model ----
(***************************************************************************)
(* Model of src/debot/term_browser.rs: the terminal DeBot browser.         *)
(*                                                                         *)
(* run_debot_browser creates a TerminalBrowser (a shared msg_queue and a   *)
(* map of bots), starts the root debot, and loops: drain msg_queue,        *)
(* select_action, execute_action.  The DEngine is external: while the      *)
(* router awaits one of its calls (start, fetch, send, execute_action) it  *)
(* invokes the BrowserCallbacks of the session's Callbacks object, one     *)
(* callback per step of the model, and finally returns Ok or Err.          *)
(* invoke_debot runs a nested run_debot_browser to completion: the runs    *)
(* form a stack, and only the innermost run takes steps.                   *)
(***************************************************************************)
EXTENDS Integers, Sequences, FiniteSets, TLC

(***************************************************************************)
(* Bounds of the model.                                                    *)
(***************************************************************************)
\* State-changing callbacks (switch, show_action, send, invoke_debot) the
\* engines issue in one behaviour.
MaxEvents == 4
\* Nesting of run_debot_browser through invoke_debot (1 = the root run only).
MaxDepth == 2

(***************************************************************************)
(* Program constants (ton_client::debot, imported at line 21).             *)
(***************************************************************************)
STATE_EXIT == 255
DEBOT_WC == -31

\* Debot addresses in canonical "wc:hex" form; BadAddr is a string that
\* load_ton_address rejects.
Addrs == {"0:a", "0:b"}
BadAddr == "zz"
\* Context ids an engine switches to (u8), besides STATE_EXIT.
Ctxs == {1, STATE_EXIT}
\* The root debot of the outermost run, as given on the command line.
Roots == {"0:a", BadAddr}
\* The interface id of a message to workchain DEBOT_WC.
IfaceId == "iface"

NoAddr == "none"
NoAct == 0
NoMsg == [id |-> 0]
NoRet == [call |-> "none", r |-> "none"]

VARIABLES
    runs,     \* stack of run_debot_browser activations, innermost last
    events    \* number of state-changing engine callbacks so far

vars == <<runs, events>>

(***************************************************************************)
(* ActiveState::default() (line 143): state_id 0, no actions, no messages. *)
(* shown is the list of indices show_action printed since the last switch  *)
(* to a non-exit context (terminal output, line 213).                      *)
(***************************************************************************)
ActiveStateDefault ==
    [state_id |-> 0, active_actions |-> <<>>, msg_queue |-> <<>>, shown |-> <<>>]

(***************************************************************************)
(* TerminalBrowser::new (line 46) plus the locals of run_debot_browser.    *)
(*   pc         position of the run                                        *)
(*   res        result of the run: "none" while running, "ok", "err"       *)
(*   why        the error message of a failed run                          *)
(*   msg_queue  TerminalBrowser.msg_queue                                  *)
(*   bots       keys of TerminalBrowser.bots                               *)
(*   cb         the ActiveState behind each address's Callbacks            *)
(*   cur        the session whose engine call is awaited                   *)
(*   msg        the envelope being dispatched                              *)
(*   act        the action select_action returned                          *)
(*   rlock      addresses whose ActiveState read guard the router holds    *)
(*   ret        the last external call that returned since the last pop,   *)
(*              and what it returned                                       *)
(*   entered    ids in the order they entered msg_queue                    *)
(*   dispatched id and gen of the envelopes popped, in that order          *)
(*   shutdowns  number of "Debot Browser shutdown" lines the run printed   *)
(*   debot_errors  number of "Debot error: ..." lines the run printed      *)
(*   prompted   the run has shown the "debash$ " prompt                    *)
(***************************************************************************)
NewBrowser(addr) ==
    [addr |-> addr, pc |-> "connect", res |-> "none", why |-> "none",
     msg_queue |-> <<>>, bots |-> {},
     cb |-> [a \in Addrs |-> ActiveStateDefault],
     cur |-> NoAddr, msg |-> NoMsg, act |-> NoAct, rlock |-> {}, ret |-> NoRet,
     entered |-> <<>>, dispatched |-> <<>>,
     shutdowns |-> 0, debot_errors |-> 0, prompted |-> FALSE]

Depth == Len(runs)
Top == runs[Depth]
SetTop(f) == runs' = [runs EXCEPT ![Depth] = f]

\* `?` on an Err: the run returns the error to its caller.
Fail(f, why) == [f EXCEPT !.pc = "done", !.res = "err", !.why = why,
                          !.cur = NoAddr, !.msg = NoMsg, !.act = NoAct]

Init ==
    /\ \E addr \in Roots : runs = <<NewBrowser(addr)>>
    /\ events = 0

(***************************************************************************)
(* load_ton_address (crate::helpers): checks the address format.           *)
(***************************************************************************)
LoadTonAddress(addr) ==
    IF addr \in Addrs THEN [ok |-> TRUE, addr |-> addr]
                      ELSE [ok |-> FALSE, addr |-> NoAddr]

(***************************************************************************)
(* fetch_debot up to its first await (lines 56-70): parse the address,     *)
(* build fresh Callbacks and a DEngine, and call start or fetch.           *)
(***************************************************************************)
FetchDebotBegin(f, addr, start) ==
    LET la == LoadTonAddress(addr) IN
    IF ~la.ok
    THEN Fail([f EXCEPT !.ret = [call |-> "load_ton_address", r |-> "Err"]], "bad address")
    ELSE [f EXCEPT !.pc = IF start THEN "start" ELSE "fetch",
                   !.cur = la.addr,
                   !.cb[la.addr] = ActiveStateDefault]

(***************************************************************************)
(* run_debot_browser, lines 322-325: print "Connecting", create the client *)
(* (which may fail), create the browser and begin fetch_debot(addr, true). *)
(***************************************************************************)
Connect ==
    /\ Top.pc = "connect"
    /\ \E client_ok \in BOOLEAN :
         IF client_ok
         THEN SetTop(FetchDebotBegin(Top, Top.addr, TRUE))
         ELSE SetTop(Fail([Top EXCEPT !.ret = [call |-> "create_client", r |-> "Err"]],
                          "create_client failed"))
    /\ UNCHANGED events

EnginePcs == {"start", "fetch", "send", "isend", "exec"}

\* The router is awaiting an engine call of session Top.cur: the engine runs
\* and calls back.
EngineRunning == Top.pc \in EnginePcs

\* self.state.write() (lines 198, 212, 247) succeeds only while no read
\* guard of that ActiveState is alive.
WriteLockFree == Top.cur \notin Top.rlock

(***************************************************************************)
(* Callbacks::log (line 191): print the message.                           *)
(***************************************************************************)
log ==
    /\ EngineRunning
    /\ UNCHANGED <<runs, events>>

(***************************************************************************)
(* Callbacks::input (line 218) and Callbacks::get_signing_box (line 226):  *)
(* terminal input for the engine, without touching the ActiveState.        *)
(***************************************************************************)
input ==
    /\ EngineRunning
    /\ UNCHANGED <<runs, events>>

get_signing_box ==
    /\ EngineRunning
    /\ UNCHANGED <<runs, events>>

(***************************************************************************)
(* Callbacks::switch (line 196): set state_id; clear active_actions unless *)
(* the new context is STATE_EXIT.                                          *)
(***************************************************************************)
\* Variant: the actions are cleared on every switch, also to STATE_EXIT.
SwitchActionsAlwaysClear(ctx_id, active_actions) == <<>>

SwitchActions(ctx_id, active_actions) ==
    IF ctx_id = STATE_EXIT THEN active_actions ELSE <<>>

switch ==
    /\ EngineRunning
    /\ WriteLockFree
    /\ events < MaxEvents
    /\ \E ctx_id \in Ctxs :
         LET a == Top.cur
             st == Top.cb[a]
         IN  SetTop([Top EXCEPT
                 !.cb[a] = [st EXCEPT
                     !.state_id = ctx_id,
                     !.active_actions = SwitchActions(ctx_id, st.active_actions),
                     !.shown = IF ctx_id = STATE_EXIT THEN st.shown ELSE <<>>]])
    /\ events' = events + 1

(***************************************************************************)
(* Callbacks::show_action (line 211): print "<len + 1>) <desc>" and push   *)
(* the action.                                                             *)
(***************************************************************************)
\* Variant: the printed index is 0-based.
ShownIndexZeroBased(active_actions) == Len(active_actions)

ShownIndex(active_actions) == Len(active_actions) + 1

show_action ==
    /\ EngineRunning
    /\ WriteLockFree
    /\ events < MaxEvents
    /\ LET act == events + 1
           a == Top.cur
           st == Top.cb[a]
       IN  SetTop([Top EXCEPT
               !.cb[a] = [st EXCEPT
                   !.shown = Append(st.shown, <<ShownIndex(st.active_actions), act>>),
                   !.active_actions = Append(st.active_actions, act)]])
    /\ events' = events + 1

(***************************************************************************)
(* Callbacks::send (line 246): push the message to the back of the         *)
(* session's own msg_queue.  A message is what parse_message (line 329)    *)
(* reads from it: src, and dst as workchain and id.  Only the source of a  *)
(* message to workchain DEBOT_WC is read by the router, so it alone is     *)
(* left to the engine.  id numbers the envelopes in the order of their     *)
(* creation, gen is the number of envelopes the run had dispatched when    *)
(* this one was created, and in_exec tells that it was created during      *)
(* execute_action.                                                         *)
(***************************************************************************)
Messages(a) ==
    {[src |-> a, wc |-> 0, dst |-> d] : d \in Addrs}
        \cup {[src |-> s, wc |-> DEBOT_WC, dst |-> IfaceId] : s \in Addrs}

send ==
    /\ EngineRunning
    /\ WriteLockFree
    /\ events < MaxEvents
    /\ \E m \in Messages(Top.cur) :
         LET a == Top.cur
             message == [id |-> events + 1, src |-> m.src, wc |-> m.wc,
                         dst |-> m.dst, gen |-> Len(Top.dispatched),
                         in_exec |-> Top.pc = "exec"]
         IN  SetTop([Top EXCEPT
                 !.cb[a].msg_queue = Append(Top.cb[a].msg_queue, message)])
    /\ events' = events + 1

(***************************************************************************)
(* Callbacks::invoke_debot (line 240): print "Invoking debot" and run a    *)
(* nested run_debot_browser on the given address.                          *)
(***************************************************************************)
\* Variant: the nested browser is handed the caller's sessions and queue.
invoke_debot_shared ==
    /\ EngineRunning
    /\ Depth < MaxDepth
    /\ events < MaxEvents
    /\ \E debot \in Addrs :
         runs' = Append(runs, [NewBrowser(debot) EXCEPT !.bots = Top.bots,
                                                        !.cb = Top.cb,
                                                        !.msg_queue = Top.msg_queue])
    /\ events' = events + 1

invoke_debot ==
    /\ EngineRunning
    /\ Depth < MaxDepth
    /\ events < MaxEvents
    /\ \E debot \in Addrs :
         runs' = Append(runs, NewBrowser(debot))
    /\ events' = events + 1

\* Variant: invoke_debot returns while the nested run is still going.
invoke_debot_return_early ==
    /\ Depth > 1
    /\ Top.pc \in {"done", "drain", "prompt"}
    /\ runs' = SubSeq(runs, 1, Depth - 1)
    /\ UNCHANGED events

\* The nested run_debot_browser returns its result to the engine that
\* called invoke_debot (line 243); the nested browser is dropped.
invoke_debot_return ==
    /\ Depth > 1
    /\ Top.pc = "done"
    /\ runs' = SubSeq(runs, 1, Depth - 1)
    /\ UNCHANGED events

(***************************************************************************)
(* VecDeque::append(&mut self, other): move all of other to the back of    *)
(* self, in order, leaving other empty.                                    *)
(***************************************************************************)
\* Variant: the new messages go to the front (depth-first).
QueueAppendFront(queue, other) == other \o queue

QueueAppend(queue, other) == queue \o other

Ids(queue) == [i \in 1..Len(queue) |-> queue[i].id]

\* Lines 73-74, 119-120 and 136-137: move the session's msg_queue into the
\* browser's msg_queue under the write lock.
\* Variant: the session's messages are copied, its queue is not emptied.
MergeQueueCopy(f, a) ==
    [f EXCEPT !.msg_queue = QueueAppend(f.msg_queue, f.cb[a].msg_queue),
              !.entered = f.entered \o Ids(f.cb[a].msg_queue)]

MergeQueue(f, a) ==
    [f EXCEPT !.msg_queue = QueueAppend(f.msg_queue, f.cb[a].msg_queue),
              !.entered = f.entered \o Ids(f.cb[a].msg_queue),
              !.cb[a].msg_queue = <<>>]

(***************************************************************************)
(* fetch_debot after dengine.start / dengine.fetch returned (lines 66-85): *)
(* on Err, or if load_abi fails, return the error (the Callbacks and the   *)
(* engine are dropped); else merge the start-up messages and insert the    *)
(* entry into bots.                                                        *)
(***************************************************************************)
\* Variant: the start-up messages are merged before load_abi is checked.
FetchDebotEndMergeFirst(f, engine_ok, abi_ok) ==
    LET a == f.cur IN
    IF ~engine_ok
    THEN Fail([f EXCEPT !.cb[a] = ActiveStateDefault,
                        !.ret = [call |-> f.pc, r |-> "Err"]], "engine failed")
    ELSE IF ~abi_ok
    THEN Fail([MergeQueue(f, a) EXCEPT !.ret = [call |-> f.pc, r |-> "AbiErr"]],
              "load_abi failed")
    ELSE [MergeQueue(f, a) EXCEPT !.bots = f.bots \cup {a},
                                  !.ret = [call |-> f.pc, r |-> "Ok"]]

FetchDebotEnd(f, engine_ok, abi_ok) ==
    LET a == f.cur IN
    IF ~engine_ok
    THEN Fail([f EXCEPT !.cb[a] = ActiveStateDefault,
                        !.ret = [call |-> f.pc, r |-> "Err"]], "engine failed")
    ELSE IF ~abi_ok
    THEN Fail([f EXCEPT !.cb[a] = ActiveStateDefault,
                        !.ret = [call |-> f.pc, r |-> "AbiErr"]], "load_abi failed")
    ELSE [MergeQueue(f, a) EXCEPT !.bots = f.bots \cup {a},
                                  !.ret = [call |-> f.pc, r |-> "Ok"]]

\* run_debot_browser line 325: browser.fetch_debot(addr, true).await?
start_return ==
    /\ Top.pc = "start"
    /\ \E engine_ok \in BOOLEAN, abi_ok \in BOOLEAN :
         LET f == FetchDebotEnd(Top, engine_ok, abi_ok) IN
         SetTop(IF f.res = "err" THEN f
                ELSE [f EXCEPT !.pc = "drain", !.cur = NoAddr])
    /\ UNCHANGED events

\* call_debot lines 131-135: fetch_debot(addr, false).await?, then look the
\* debot up and call dengine.send(msg).
fetch_return ==
    /\ Top.pc = "fetch"
    /\ \E engine_ok \in BOOLEAN, abi_ok \in BOOLEAN :
         LET f == FetchDebotEnd(Top, engine_ok, abi_ok) IN
         SetTop(IF f.res = "err" THEN f
                ELSE IF f.cur \notin f.bots THEN Fail(f, "debot not found")
                ELSE [f EXCEPT !.pc = "send"])
    /\ UNCHANGED events

(***************************************************************************)
(* call_debot lines 135-138: dengine.send(msg) returned.  An Err is        *)
(* returned as "Debot failed: ..." ; on Ok the new messages are merged.    *)
(***************************************************************************)
\* Variant: a failed send is treated as in call_interface: merged, not fatal.
CallDebotEndNonFatal(f, send_ok) ==
    [MergeQueue(f, f.cur) EXCEPT
        !.pc = "drain", !.cur = NoAddr, !.msg = NoMsg,
        !.ret = [call |-> "send", r |-> IF send_ok THEN "Ok" ELSE "Err"]]

CallDebotEnd(f, send_ok) ==
    IF ~send_ok
    THEN Fail([f EXCEPT !.ret = [call |-> "send", r |-> "Err"]], "Debot failed")
    ELSE [MergeQueue(f, f.cur) EXCEPT !.pc = "drain", !.cur = NoAddr, !.msg = NoMsg,
                                      !.ret = [call |-> "send", r |-> "Ok"]]

send_return ==
    /\ Top.pc = "send"
    /\ \E send_ok \in BOOLEAN : SetTop(CallDebotEnd(Top, send_ok))
    /\ UNCHANGED events

(***************************************************************************)
(* call_interface lines 118-126: dengine.send(response_msg) returned.  The *)
(* new messages are merged; an Err is printed ("Debot error: ...") and the *)
(* function returns Ok.                                                    *)
(***************************************************************************)
\* Variant: a failed send of the response ends the run, nothing merged.
CallInterfaceEndFatal(f, send_ok) ==
    IF ~send_ok
    THEN Fail([f EXCEPT !.ret = [call |-> "isend", r |-> "Err"]], "send failed")
    ELSE [MergeQueue(f, f.cur) EXCEPT
             !.pc = "drain", !.cur = NoAddr, !.msg = NoMsg,
             !.ret = [call |-> "isend", r |-> "Ok"]]

CallInterfaceEnd(f, send_ok) ==
    [MergeQueue(f, f.cur) EXCEPT
        !.pc = "drain", !.cur = NoAddr, !.msg = NoMsg,
        !.ret = [call |-> "isend", r |-> IF send_ok THEN "Ok" ELSE "Err"],
        !.debot_errors = IF send_ok THEN f.debot_errors ELSE f.debot_errors + 1]

interface_send_return ==
    /\ Top.pc = "isend"
    /\ \E send_ok \in BOOLEAN : SetTop(CallInterfaceEnd(Top, send_ok))
    /\ UNCHANGED events

(***************************************************************************)
(* run_debot_browser line 366: dengine.execute_action(&act).await? and     *)
(* back to the top of the loop.                                            *)
(***************************************************************************)
\* Variant: a failed execute_action is ignored and the loop goes on.
ExecuteActionEndNonFatal(f, exec_ok) ==
    [f EXCEPT !.pc = "drain", !.cur = NoAddr, !.act = NoAct,
              !.ret = [call |-> "exec", r |-> IF exec_ok THEN "Ok" ELSE "Err"]]

ExecuteActionEnd(f, exec_ok) ==
    IF ~exec_ok
    THEN Fail([f EXCEPT !.ret = [call |-> "exec", r |-> "Err"]], "execute_action failed")
    ELSE [f EXCEPT !.pc = "drain", !.cur = NoAddr, !.act = NoAct,
                   !.ret = [call |-> "exec", r |-> "Ok"]]

execute_action_return ==
    /\ Top.pc = "exec"
    /\ \E exec_ok \in BOOLEAN : SetTop(ExecuteActionEnd(Top, exec_ok))
    /\ UNCHANGED events

(***************************************************************************)
(* Local interfaces (SupportedInterfaces::try_execute, line 96) and the    *)
(* encoding of the answer (encode_internal_message, line 103) are          *)
(* external: None, Some(Err), Some(Ok) with a failed encoding, or          *)
(* Some(Ok) with an encoded response.                                      *)
(***************************************************************************)
TryExecuteResults == {"None", "SomeErr", "EncodeErr", "SomeOk"}

(***************************************************************************)
(* call_interface up to dengine.send (lines 94-118): the debot of the      *)
(* source address must exist; the interfaces are tried; None falls through *)
(* to Ok(()), an error is returned, a response is sent to the debot.       *)
(***************************************************************************)
\* Variant: an interface call that no interface recognizes is an error.
CallInterfaceBeginStrict(f, debot_addr, result) ==
    LET g == [f EXCEPT !.ret = [call |-> "try_execute", r |-> result]] IN
    IF debot_addr \notin f.bots THEN Fail(f, "Internal browser error: debot not found")
    ELSE IF result \in {"None", "SomeErr"} THEN Fail(g, "interface failed")
    ELSE IF result = "EncodeErr" THEN Fail(g, "encode failed")
    ELSE [g EXCEPT !.pc = "isend", !.cur = debot_addr]

\* Variant: an error of the interface is answered like a result.
CallInterfaceBeginIgnoreErr(f, debot_addr, result) ==
    LET g == [f EXCEPT !.ret = [call |-> "try_execute", r |-> result]] IN
    IF debot_addr \notin f.bots THEN Fail(f, "Internal browser error: debot not found")
    ELSE IF result = "None" THEN [g EXCEPT !.pc = "drain", !.msg = NoMsg]
    ELSE IF result = "EncodeErr" THEN Fail(g, "encode failed")
    ELSE [g EXCEPT !.pc = "isend", !.cur = debot_addr]

\* Variant: the response is handed to the engine of the root debot.
CallInterfaceBeginToRoot(f, debot_addr, result) ==
    LET g == [f EXCEPT !.ret = [call |-> "try_execute", r |-> result]] IN
    IF debot_addr \notin f.bots THEN Fail(f, "Internal browser error: debot not found")
    ELSE IF result = "None" THEN [g EXCEPT !.pc = "drain", !.msg = NoMsg]
    ELSE IF result = "SomeErr" THEN Fail(g, "interface failed")
    ELSE IF result = "EncodeErr" THEN Fail(g, "encode failed")
    ELSE [g EXCEPT !.pc = "isend", !.cur = f.addr]

CallInterfaceBegin(f, debot_addr, result) ==
    LET g == [f EXCEPT !.ret = [call |-> "try_execute", r |-> result]] IN
    IF debot_addr \notin f.bots THEN Fail(f, "Internal browser error: debot not found")
    ELSE IF result = "None" THEN [g EXCEPT !.pc = "drain", !.msg = NoMsg]
    ELSE IF result = "SomeErr" THEN Fail(g, "interface failed")
    ELSE IF result = "EncodeErr" THEN Fail(g, "encode failed")
    ELSE [g EXCEPT !.pc = "isend", !.cur = debot_addr]

(***************************************************************************)
(* call_debot up to its first await (lines 130-135): fetch the debot if    *)
(* bots has no entry for the address, else send the message to its engine. *)
(***************************************************************************)
\* Variant: the debot is fetched for every message, known or not.
CallDebotBeginAlwaysFetch(f, addr) == FetchDebotBegin(f, addr, FALSE)

CallDebotBegin(f, addr) ==
    IF addr \notin f.bots THEN FetchDebotBegin(f, addr, FALSE)
    ELSE [f EXCEPT !.pc = "send", !.cur = addr]

\* The condition of `while let Some(msg) = next_msg` (line 328) after
\* next_msg = browser.msg_queue.pop_front().
\* Variant: the loop stops one message early.
DrainDoneEarly(msg_queue) == Len(msg_queue) <= 1

DrainDone(msg_queue) == msg_queue = <<>>

(***************************************************************************)
(* run_debot_browser lines 327-353: pop the front message, parse it       *)
(* (parse_message or the reading of dst may fail), and dispatch on the     *)
(* workchain of its destination.                                           *)
(***************************************************************************)
pop_front ==
    /\ Top.pc = "drain"
    /\ ~DrainDone(Top.msg_queue)
    /\ LET msg == Head(Top.msg_queue)
           f == [Top EXCEPT !.msg_queue = Tail(Top.msg_queue),
                            !.msg = msg,
                            !.ret = NoRet,
                            !.dispatched = Append(Top.dispatched,
                                                  [id |-> msg.id, gen |-> msg.gen])]
       IN  \E parse_ok \in BOOLEAN :
             IF ~parse_ok
             THEN SetTop(Fail([f EXCEPT !.ret = [call |-> "parse_message", r |-> "Err"]],
                              "parse failed"))
             ELSE IF msg.wc = DEBOT_WC
             THEN \E result \in TryExecuteResults :
                      SetTop(CallInterfaceBegin(f, msg.src, result))
             ELSE SetTop(CallDebotBegin(f, msg.dst))
    /\ UNCHANGED events

(***************************************************************************)
(* Callbacks::select_action lines 162-169: take the read lock; None if the *)
(* context is STATE_EXIT or there are no actions.                          *)
(***************************************************************************)
\* Variant: only the exit context ends the loop.
SelectActionNoneExitOnly(state) == state.state_id = STATE_EXIT

SelectActionNone(state) ==
    \/ state.state_id = STATE_EXIT
    \/ Len(state.active_actions) = 0

(***************************************************************************)
(* run_debot_browser lines 358-369 once msg_queue is drained: look the     *)
(* root debot up and call select_action; None breaks the loop, else the    *)
(* operator is prompted with the read guard alive.                         *)
(***************************************************************************)
select_action ==
    /\ Top.pc = "drain"
    /\ DrainDone(Top.msg_queue)
    /\ IF Top.addr \notin Top.bots
       THEN SetTop(Fail(Top, "Internal error: debot not found"))
       ELSE IF SelectActionNone(Top.cb[Top.addr])
       THEN SetTop([Top EXCEPT !.pc = "terminal"])
       ELSE SetTop([Top EXCEPT !.pc = "prompt", !.rlock = {Top.addr},
                               !.prompted = TRUE])
    /\ UNCHANGED events

(***************************************************************************)
(* What the operator types at "debash$ ": a blank line (or end of input),  *)
(* a line that cannot be read, a word that is no number, or a number.      *)
(***************************************************************************)
Tokens ==
    {[kind |-> k, n |-> 0] : k \in {"blank", "ioerr", "word"}}
        \cup {[kind |-> "number", n |-> i] : i \in 0..(MaxEvents + 1)}

(***************************************************************************)
(* action_input(max) (line 292) on a non-blank line: Err on a read error,  *)
(* on a first word that is no usize, and on n > max; else Ok(n).           *)
(***************************************************************************)
action_input(tok, max) ==
    IF tok.kind = "ioerr" THEN [ok |-> FALSE, n |-> 0, err |-> "failed to read line"]
    ELSE IF tok.kind = "word" THEN [ok |-> FALSE, n |-> 0, err |-> "Oops! Invalid action"]
    ELSE IF tok.n > max THEN [ok |-> FALSE, n |-> 0, err |-> "Auch! Invalid action"]
    ELSE [ok |-> TRUE, n |-> tok.n, err |-> "none"]

(***************************************************************************)
(* state.active_actions.get(n - 1) (line 178), n: usize.  n - 1 for n = 0  *)
(* panics when the build checks overflow and wraps to usize::MAX           *)
(* otherwise, where get returns None.  The result is the set of outcomes:  *)
(* "panic", "None", or the action.                                         *)
(***************************************************************************)
GetAction(active_actions, n) ==
    IF n = 0 THEN {[kind |-> "panic", act |-> NoAct], [kind |-> "None", act |-> NoAct]}
    ELSE IF n > Len(active_actions) THEN {[kind |-> "None", act |-> NoAct]}
    ELSE {[kind |-> "Some", act |-> active_actions[n]]}

(***************************************************************************)
(* The loop of select_action (lines 171-184) for one line of input,        *)
(* followed by run_debot_browser lines 362-366 when an action is returned: *)
(* the read guard is dropped and execute_action is called on the root      *)
(* debot's engine.                                                         *)
(***************************************************************************)
\* Variant: the number is looked up in the actions of any session.
operator_input_any_session ==
    /\ Top.pc = "prompt"
    /\ \E tok \in Tokens, a \in Top.bots :
         LET state == Top.cb[a]
             res == action_input(tok, Len(state.active_actions))
         IN  IF tok.kind = "blank" THEN UNCHANGED runs
             ELSE IF ~res.ok THEN UNCHANGED runs
             ELSE \E got \in GetAction(state.active_actions, res.n) :
                    IF got.kind = "panic" THEN SetTop([Top EXCEPT !.pc = "panicked"])
                    ELSE IF got.kind = "None"
                    THEN UNCHANGED runs
                    ELSE SetTop([Top EXCEPT !.pc = "exec", !.rlock = {},
                                            !.act = got.act, !.cur = Top.addr])
    /\ UNCHANGED events

operator_input ==
    /\ Top.pc = "prompt"
    /\ \E tok \in Tokens :
         LET state == Top.cb[Top.addr]
             res == action_input(tok, Len(state.active_actions))
         IN  IF tok.kind = "blank" THEN UNCHANGED runs
             ELSE IF ~res.ok THEN UNCHANGED runs
             ELSE \E got \in GetAction(state.active_actions, res.n) :
                    IF got.kind = "panic" THEN SetTop([Top EXCEPT !.pc = "panicked"])
                    ELSE IF got.kind = "None"
                    THEN UNCHANGED runs
                    ELSE SetTop([Top EXCEPT !.pc = "exec", !.rlock = {},
                                            !.act = got.act, !.cur = Top.addr])
    /\ UNCHANGED events

(***************************************************************************)
(* run_debot_browser lines 371-372: print the shutdown notice, return Ok.  *)
(***************************************************************************)
shutdown ==
    /\ Top.pc = "terminal"
    /\ SetTop([Top EXCEPT !.pc = "done", !.res = "ok",
                          !.shutdowns = Top.shutdowns + 1])
    /\ UNCHANGED events

Next ==
    \/ Connect
    \/ log
    \/ input
    \/ get_signing_box
    \/ switch
    \/ show_action
    \/ send
    \/ invoke_debot
    \/ invoke_debot_return
    \/ start_return
    \/ fetch_return
    \/ send_return
    \/ interface_send_return
    \/ execute_action_return
    \/ pop_front
    \/ select_action
    \/ operator_input
    \/ shutdown

Spec == Init /\ [][Next]_vars

(***************************************************************************)
(* Properties.                                                             *)
(***************************************************************************)
Frames == {runs[i] : i \in 1..Depth}

\* The envelopes a run still holds: in its msg_queue or in a session's.
Pending(f) ==
    {f.msg_queue[i] : i \in 1..Len(f.msg_queue)}
        \cup UNION {{f.cb[a].msg_queue[i] : i \in 1..Len(f.cb[a].msg_queue)} : a \in Addrs}

\* C1: every envelope the root engine enqueued during execute_action has
\* been routed when the router next prompts the operator or reaches Terminal.
C1_ExecEnvelopesRouted ==
    \A f \in Frames :
        f.pc \in {"prompt", "terminal"} => \A m \in Pending(f) : ~m.in_exec

\* C2: while the router prompts the operator or has decided to go to
\* Terminal, the browser's msg_queue is empty.
C2_QueueEmptyWhenPrompting ==
    \A f \in Frames : f.pc \in {"prompt", "terminal"} => f.msg_queue = <<>>

C2_Witness ==
    \E f \in Frames : f.pc = "prompt" /\ Len(f.dispatched) >= 2

\* C3: envelopes are dispatched in the order they entered msg_queue, and
\* along that order the dispatch step that produced them never decreases
\* (breadth-first), envelopes of one step keeping the engine's order.
C3_Fifo ==
    \A f \in Frames :
        LET all == f.dispatched
                       \o [i \in 1..Len(f.msg_queue) |->
                              [id |-> f.msg_queue[i].id, gen |-> f.msg_queue[i].gen]]
        IN  /\ [i \in 1..Len(all) |-> all[i].id] = f.entered
            /\ \A i, j \in 1..Len(all) :
                  i < j => /\ all[i].gen <= all[j].gen
                           /\ all[i].gen = all[j].gen => all[i].id < all[j].id

C3_Witness ==
    \E f \in Frames :
        /\ Len(f.dispatched) = 3
        /\ f.dispatched[2].gen = 0
        /\ f.dispatched[3].gen = 1

\* C4: the router holds no lock on an ActiveState while it blocks on operator
\* input or awaits an engine call.
C4_NoLockWhileBlocked ==
    \A f \in Frames : f.pc \in {"prompt"} \cup EnginePcs => f.rlock = {}

C6_NoCrash ==
    \A f \in Frames : f.pc # "panicked"

\* C7: a switch to STATE_EXIT leaves active_actions unchanged, and when the
\* queue is drained and the root's state_id is STATE_EXIT the run goes to
\* Terminal without prompting, whatever active_actions holds.
C7_ExitContext ==
    [][Depth' = Depth =>
        LET f == runs[Depth]
            g == runs'[Depth]
        IN  /\ \A a \in Addrs :
                  (f.pc = g.pc /\ f.cb[a].state_id # STATE_EXIT
                               /\ g.cb[a].state_id = STATE_EXIT)
                      => g.cb[a].active_actions = f.cb[a].active_actions
            /\ (f.pc = "drain" /\ f.msg_queue = <<>> /\ f.addr \in f.bots
                    /\ f.cb[f.addr].state_id = STATE_EXIT /\ g # f)
                   => g.pc = "terminal" /\ g.rlock = {}]_vars

C7_Witness ==
    \E f \in Frames :
        /\ f.pc = "terminal"
        /\ f.cb[f.addr].state_id = STATE_EXIT
        /\ f.cb[f.addr].active_actions # <<>>

\* C8: in every session the indices printed since the last switch to a
\* non-exit context are 1, 2, ... and active_actions is exactly the actions
\* printed with them, in that order (so that switch left it empty).
C8_ShownContiguous ==
    \A f \in Frames : \A a \in Addrs :
        LET st == f.cb[a] IN
        st.shown = [j \in 1..Len(st.active_actions) |-> <<j, st.active_actions[j]>>]

C8_Witness ==
    \E f \in Frames : \E a \in Addrs :
        /\ f.cb[a].state_id = 1
        /\ Len(f.cb[a].active_actions) = 2
        /\ f.cb[a].active_actions[1] > 2

\* C9: the run goes to Terminal exactly when, with the queue drained, the
\* root's state_id is STATE_EXIT or it has no actions, and else prompts;
\* a successful run has printed the shutdown notice once, as its last step;
\* a failed or crashed run has not printed it.
C9_Termination ==
    \A f \in Frames :
        LET none == \/ f.cb[f.addr].state_id = STATE_EXIT
                    \/ f.cb[f.addr].active_actions = <<>>
        IN  /\ f.pc = "terminal" => none
            /\ f.pc = "prompt" => ~none
            /\ f.res = "ok" => f.pc = "done" /\ f.shutdowns = 1 /\ none
            /\ f.shutdowns > 0 => f.pc = "done" /\ f.res = "ok"
            /\ f.pc = "done" => f.res \in {"ok", "err"}

C9_Witness ==
    \E f \in Frames :
        /\ f.res = "ok"
        /\ f.cb[f.addr].state_id # STATE_EXIT
        /\ f.ret = [call |-> "exec", r |-> "Ok"]

\* C10: when try_execute returns None for a popped message to workchain
\* DEBOT_WC, the step ends without error and changes nothing but the pop.
C10_UnknownInterfaceDropped ==
    [][(Depth' = Depth /\ runs[Depth].pc = "drain" /\ runs[Depth].msg_queue # <<>>
            /\ runs'[Depth].ret = [call |-> "try_execute", r |-> "None"]
            /\ runs'[Depth] # runs[Depth])
        => LET f == runs[Depth]
               msg == Head(f.msg_queue)
           IN  /\ msg.wc = DEBOT_WC
               /\ runs' = [runs EXCEPT
                      ![Depth].msg_queue = Tail(f.msg_queue),
                      ![Depth].dispatched =
                          Append(f.dispatched, [id |-> msg.id, gen |-> msg.gen]),
                      ![Depth].ret = [call |-> "try_execute", r |-> "None"]]]_vars

C10_Witness ==
    \E f \in Frames :
        /\ f.ret = [call |-> "try_execute", r |-> "None"]
        /\ f.pc = "drain"
        /\ f.msg_queue # <<>>
        /\ f.res = "none"

\* C11: sessions are only added to bots, and for an address that has a
\* session no engine is started or fetched again: a message to it goes
\* straight to the send on the stored engine, with its ActiveState kept.
C11_SessionsKept ==
    [][Depth' = Depth =>
        LET f == runs[Depth]
            g == runs'[Depth]
        IN  /\ f.bots \subseteq g.bots
            /\ g.pc \in {"start", "fetch"} => g.cur \notin f.bots
            /\ (f.pc = "drain" /\ f.msg_queue # <<>>
                   /\ Head(f.msg_queue).wc # DEBOT_WC
                   /\ Head(f.msg_queue).dst \in f.bots /\ g.res = "none")
                  => LET a == Head(f.msg_queue).dst IN
                     g.pc = "send" /\ g.cur = a /\ g.cb[a] = f.cb[a]]_vars

C11_Witness ==
    \E f \in Frames :
        /\ f.pc = "send"
        /\ f.ret = NoRet
        /\ f.cur # f.addr
        /\ Cardinality(f.bots) = 2

\* C12: when fetch_debot fails (bad address, failed start or fetch, failed
\* load_abi) the run ends with the error, bots and msg_queue are as they
\* were and hold nothing for that address; for the root debot this is
\* before any message was dispatched and before any prompt.
C12_SessionInitFailure ==
    [][(Depth' = Depth /\ runs'[Depth] # runs[Depth]
            /\ runs'[Depth].ret.call \in {"load_ton_address", "start", "fetch"}
            /\ runs'[Depth].ret.r # "Ok")
        => LET f == runs[Depth]
               g == runs'[Depth]
               addr == IF f.pc = "connect" THEN f.addr ELSE f.cur
           IN  /\ g.pc = "done" /\ g.res = "err" /\ g.shutdowns = 0
               /\ g.bots = f.bots
               /\ addr \notin g.bots
               /\ g.msg_queue = f.msg_queue
               /\ g.entered = f.entered
               /\ g.dispatched = f.dispatched
               /\ f.pc \in {"connect", "start"}
                     => g.bots = {} /\ g.dispatched = <<>> /\ ~g.prompted
               /\ f.pc = "fetch" => Len(g.dispatched) >= 1]_vars

C12_Witness ==
    \E f \in Frames :
        /\ f.ret = [call |-> "fetch", r |-> "AbiErr"]
        /\ f.res = "err"
        /\ f.msg_queue # <<>>

\* C13: when execute_action of the chosen action fails, the run ends with
\* the error in that step: nothing more is dispatched, no prompt follows and
\* no shutdown notice is printed; a run that has ended takes no more steps.
C13_ExecuteFailureFatal ==
    [][Depth' = Depth =>
        LET f == runs[Depth]
            g == runs'[Depth]
        IN  /\ (f.pc = "exec" /\ g.ret = [call |-> "exec", r |-> "Err"])
                   => /\ g.pc = "done" /\ g.res = "err" /\ g.shutdowns = 0
                      /\ g.why = "execute_action failed"
                      /\ g.dispatched = f.dispatched
                      /\ g.msg_queue = f.msg_queue
                      /\ g.rlock = {}
            /\ (f.pc = "done" /\ f.res = "err") => g = f]_vars

C13_Witness ==
    \E f \in Frames :
        /\ f.ret = [call |-> "exec", r |-> "Err"]
        /\ f.res = "err"
        /\ f.prompted

\* C14: when try_execute returns Some(Err) the error ends the step (and
\* the run): no engine is sent anything, no ActiveState changes, and
\* nothing is appended to msg_queue.
C14_InterfaceErrorAborts ==
    [][(Depth' = Depth /\ runs[Depth].pc = "drain"
            /\ runs'[Depth].ret = [call |-> "try_execute", r |-> "SomeErr"]
            /\ runs'[Depth] # runs[Depth])
        => LET f == runs[Depth]
               g == runs'[Depth]
           IN  /\ g.pc = "done" /\ g.res = "err"
               /\ g.msg_queue = Tail(f.msg_queue)
               /\ g.entered = f.entered
               /\ g.cb = f.cb
               /\ g.bots = f.bots
               /\ g.debot_errors = f.debot_errors]_vars

C14_Witness ==
    \E f \in Frames :
        /\ f.ret = [call |-> "try_execute", r |-> "SomeErr"]
        /\ f.res = "err"
        /\ f.msg_queue # <<>>

C16_InvokeSynchronous ==
    [][/\ Depth' < Depth =>
            /\ Depth' = Depth - 1
            /\ runs[Depth].pc = "done"
            /\ runs[Depth].res \in {"ok", "err"}
       /\ \A i \in 1..(Depth - 1) :
            /\ runs[i].pc \in EnginePcs
            /\ i <= Depth' =>
                 /\ runs'[i].pc = runs[i].pc
                 /\ runs'[i].dispatched = runs[i].dispatched
                 /\ runs'[i].prompted = runs[i].prompted]_vars

C16_Witness ==
    /\ Depth = 2
    /\ Top.pc = "done"
    /\ Top.res = "ok"
    /\ Len(Top.dispatched) >= 1
    /\ runs[1].pc = "send"

C18_ResponseSendFailureMerged ==
    [][(Depth' = Depth /\ runs[Depth].pc = "isend"
            /\ runs'[Depth].ret = [call |-> "isend", r |-> "Err"])
        => LET f == runs[Depth]
               g == runs'[Depth]
           IN  /\ g.pc = "drain" /\ g.res = "none"
               /\ g.msg_queue = f.msg_queue \o f.cb[f.cur].msg_queue
               /\ g.cb[f.cur].msg_queue = <<>>
               /\ g.debot_errors = f.debot_errors + 1
               /\ g.bots = f.bots]_vars

C18_Witness ==
    \E f \in Frames :
        /\ f.pc = "drain"
        /\ f.ret = [call |-> "isend", r |-> "Err"]
        /\ f.debot_errors = 1
        /\ \E i \in 1..Len(f.msg_queue) : f.msg_queue[i].gen = Len(f.dispatched)

\* C19: the action handed to execute_action is one of the active_actions
\* the root debot's ActiveState held while the prompt was up, and it goes to
\* the root debot's engine; no step of the browser itself changes state_id
\* or active_actions of any session.
C19_RootActionOnRootEngine ==
    [][Depth' = Depth =>
        LET f == runs[Depth]
            g == runs'[Depth]
        IN  /\ f.pc = "prompt" => g.cb = f.cb
            /\ (f.pc # "exec" /\ g.pc = "exec")
                 => /\ f.pc = "prompt"
                    /\ g.cur = f.addr
                    /\ f.addr \in f.bots
                    /\ \E i \in 1..Len(f.cb[f.addr].active_actions) :
                          g.act = f.cb[f.addr].active_actions[i]
            /\ events' = events
                 => \A a \in f.bots :
                      /\ g.cb[a].state_id = f.cb[a].state_id
                      /\ g.cb[a].active_actions = f.cb[a].active_actions]_vars

C19_Witness ==
    \E f \in Frames :
        /\ f.pc = "exec"
        /\ f.cur = f.addr
        /\ \E b \in f.bots \ {f.addr} :
              /\ f.cb[b].active_actions # <<>>
              /\ f.cb[b].shown # <<>>

\* The numbers of the envelopes in a queue.
IdSet(queue) == {queue[i].id : i \in 1..Len(queue)}

\* No envelope occurs twice among those the run has dispatched and those
\* waiting in msg_queue: they are as many as their numbers.
NoDuplicate(f) ==
    Cardinality(IdSet(f.dispatched) \cup IdSet(f.msg_queue))
        = Len(f.dispatched) + Len(f.msg_queue)

\* C20: whenever envelopes enter msg_queue, they are the whole msg_queue of
\* one ActiveState, put at the back in their order, and that msg_queue is
\* left empty; no merge and no pop leaves an envelope twice among the
\* dispatched and the waiting ones of the run.
C20_MergeConserves ==
    [][Depth' = Depth =>
        LET f == runs[Depth]
            g == runs'[Depth]
        IN  /\ (g.entered # f.entered \/ Len(g.msg_queue) > Len(f.msg_queue))
                 => \E a \in Addrs :
                      /\ f.cb[a].msg_queue # <<>>
                      /\ g.msg_queue = f.msg_queue \o f.cb[a].msg_queue
                      /\ g.entered = f.entered \o Ids(f.cb[a].msg_queue)
                      /\ g.cb[a].msg_queue = <<>>
                      /\ g.dispatched = f.dispatched
            /\ g.msg_queue # f.msg_queue => NoDuplicate(g)]_vars

C20_Witness ==
    \E f \in Frames :
        /\ Len(f.entered) >= 3
        /\ Len(f.dispatched) = Len(f.entered)
        /\ f.dispatched[1].gen = 0
        /\ f.dispatched[2].gen = 0
        /\ f.dispatched[3].gen >= 1
====
